---- MODULE Spec2Model ----
(***************************************************************************)
(* Model of the serverless "share" plugin (src/index.js): the command's    *)
(* lifecycle hooks init -> template -> code -> end, the template           *)
(* elaboration, and the object-storage requests they make.                 *)
(*                                                                         *)
(* Encoding of JavaScript values.                                          *)
(*   - A string is a sequence of tokens; concatenation is \o; the empty    *)
(*     string is << >>.  A version folder name is a sequence of one-       *)
(*     character tokens so that its lexicographic order can be computed.   *)
(*   - undefined is the value Undef, which no string equals; it prints as  *)
(*     the text "undefined" inside a template literal (Interp).            *)
(*   - An object is a function from its property names; `delete o.k`       *)
(*     removes k from the domain, `o.k = v` adds or replaces it.           *)
(***************************************************************************)
EXTENDS Integers, Sequences, FiniteSets

\* ------------------------------------------------------------------ bounds
\* Longest list of version folders (CommonPrefixes) a listing returns.
MaxListLen == 2
\* Longest version folder name, in characters before the trailing "/".
MaxDigits == 2
\* Longest Resources array of a template whose Resources is an array.
MaxArrayLen == 1

\* ------------------------------------------------------- JavaScript values
Undef == <<"#undefined">>
EmptyStr == << >>

\* `${v}` and string concatenation with a value: undefined prints "undefined".
Interp(v) == IF v = Undef THEN <<"undefined">> ELSE v

\* JavaScript truthiness of a string-or-undefined value.
Truthy(v) == v # Undef /\ v # EmptyStr

\* a || b
Or(a, b) == IF Truthy(a) THEN a ELSE b

Has(o, k) == k \in DOMAIN o

\* o.k of an object whose properties are strings: undefined when k is not set.
Get(o, k) == IF Has(o, k) THEN o[k] ELSE Undef

\* delete o.k
Delete(o, k) == [x \in DOMAIN o \ {k} |-> o[x]]

\* o.k = v
Put(o, k, v) == [x \in DOMAIN o \cup {k} |-> IF x = k THEN v ELSE o[x]]

\* { ...a, ...b }
Spread(a, b) == [x \in DOMAIN a \cup DOMAIN b |-> IF x \in DOMAIN b THEN b[x] ELSE a[x]]

EmptyObj == [x \in {} |-> Undef]

\* path.join(dir, file): one "/" between the two parts.
PathJoin(dir, file) ==
  IF dir # << >> /\ dir[Len(dir)] = "/" THEN dir \o file ELSE dir \o <<"/">> \o file

\* ----------------------------------------------------- the service at hand
ServiceName == <<"svc">>
StageName == <<"dev">>
DeploymentBucketName == <<"deploy-bucket">>
\* path.join('serverless', service, stage, '/')
DeploymentBucketPath == <<"serverless/">> \o ServiceName \o <<"/">> \o StageName \o <<"/">>

LambdaType == <<"AWS::Lambda::Function">>
DeploymentBucketKey == "ServerlessDeploymentBucket"

\* -------------------------------------------------------- getLatestVersion
\* UTF-16 code unit of a one-character token of a version folder name.
CharCode(c) == CASE c = "/" -> 47 [] c = "0" -> 48 [] c = "1" -> 49 [] OTHER -> 0

\* a < b in the order of String.prototype comparison (code unit by code unit,
\* a proper prefix first).  Equal tokens are skipped, whatever their length.
RECURSIVE StrLess(_, _)
StrLess(a, b) ==
  IF b = << >> THEN FALSE
  ELSE IF a = << >> THEN TRUE
  ELSE IF a[1] = b[1] THEN StrLess(Tail(a), Tail(b))
  ELSE CharCode(a[1]) < CharCode(b[1])

\* String(element) of an element of CommonPrefixes: every element is a plain
\* object { Prefix: ... }, and Object.prototype.toString ignores its content.
ElementToString(e) == <<"[object Object]">>

\* Array.prototype.sort() without a comparator: elements are ordered by their
\* string conversions; the sort is stable (by the language since ES2019, and
\* before that in V8 for the arrays of up to ten elements modelled here).
\* Insertion of e into a sorted s.
RECURSIVE SortInsert(_, _)
SortInsert(s, e) ==
  IF s = << >> THEN <<e>>
  ELSE IF StrLess(ElementToString(e), ElementToString(s[1])) THEN <<e>> \o s
  ELSE <<s[1]>> \o SortInsert(Tail(s), e)

RECURSIVE ArraySort(_)
ArraySort(s) ==
  IF s = << >> THEN << >>
  ELSE SortInsert(ArraySort(SubSeq(s, 1, Len(s) - 1)), s[Len(s)])

\* Array.prototype.reverse()
ArrayReverse(s) == [i \in 1..Len(s) |-> s[Len(s) + 1 - i]]

\* getLatestVersion without the test of lines 153-155: an empty listing yields
\* undefined instead of the error.
getLatestVersionUnchecked(commonPrefixes) ==
  LET sorted == ArrayReverse(ArraySort(commonPrefixes))
  IN  [threw |-> FALSE, value |-> IF Len(sorted) = 0 THEN Undef ELSE sorted[1].Prefix]

\* getLatestVersion, given the CommonPrefixes of the listing's response: the
\* outcome is a thrown Error or the returned prefix.
getLatestVersion(commonPrefixes) ==
  LET sorted == ArrayReverse(ArraySort(commonPrefixes))
  IN  IF Len(sorted) = 0
      THEN [threw |-> TRUE, value |-> <<"Version not found">>]
      ELSE [threw |-> FALSE, value |-> sorted[1].Prefix]

\* -------------------------------------------------------- elaborateTemplate
(***************************************************************************)
(* A template document is an object with "Resources" and, optionally,      *)
(* "Parameters".  JSON.parse yields for Resources either a plain object or  *)
(* an array; the model keeps both readings of the value apart:             *)
(*   [kind |-> "object", map |-> name -> resource, arr |-> << >>]          *)
(*   [kind |-> "array",  map |-> EmptyObj,         arr |-> <<resource..>>] *)
(* A bucket field of a resource holds the object { Ref: name }, written    *)
(* [Ref |-> name], or a string s (or undefined), written [Str |-> s].      *)
(* The share rules (shareConfig.parameters) are an object whose keys are   *)
(* visited by for..in in insertion order: a sequence of [key, rule].       *)
(***************************************************************************)

\* Line 181 with the wrong target: the whole Resources mapping is emptied.
deleteEveryResource(templateData) ==
  Put(templateData, "Resources", [templateData.Resources EXCEPT !.map = EmptyObj])

\* Line 181: delete templateData.Resources.ServerlessDeploymentBucket.
\* On an array the property does not exist and the delete changes nothing.
deleteDeploymentBucket(templateData) ==
  LET res == templateData.Resources
  IN  Put(templateData, "Resources",
          [res EXCEPT !.map = Delete(res.map, DeploymentBucketKey)])

\* Lines 190-194: the rule applied to an existing parameter object.
applyRule(parameter, rule) ==
  IF rule = "required" THEN Delete(parameter, "Default")
  ELSE IF rule = "optional" THEN Put(parameter, "Default", EmptyStr)
  ELSE parameter

\* Line 186: the message logged for a rule whose parameter is not found.
RuleWarning(key) == <<"Rule ", key, " cannot be applied, parameters not found">>

\* Lines 183-195: the for..in loop over shareConfig.parameters, from rule i on.
\* Reading a property of an undefined Parameters throws a TypeError.
RECURSIVE applyRules(_, _, _, _)
applyRules(templateData, rules, i, logged) ==
  IF i > Len(rules)
  THEN [threw |-> FALSE, doc |-> templateData, log |-> logged]
  ELSE IF ~Has(templateData, "Parameters")
  THEN [threw |-> TRUE, doc |-> templateData, log |-> logged]
  ELSE LET key == rules[i].key
           params == templateData.Parameters
       IN  IF ~Has(params, key)
           THEN applyRules(templateData, rules, i + 1, Append(logged, RuleWarning(key)))
           ELSE applyRules(
                  Put(templateData, "Parameters",
                      Put(params, key, applyRule(params[key], rules[i].rule))),
                  rules, i + 1, logged)

\* Lines 198-208: the filter's test and the forEach body on one resource.
rewriteCode(resource, destBucket, destCodeKey) ==
  IF /\ Has(resource, "Type")
     /\ resource.Type = LambdaType
     /\ Has(resource, "Properties")
     /\ Has(resource.Properties, "Code")
     /\ Has(resource.Properties, "S3Bucket")
     /\ (Has(resource.Properties.S3Bucket, "Ref") \/ Truthy(resource.Properties.S3Bucket.Str))
     /\ Has(resource.Properties.S3Bucket, "Ref")
     /\ resource.Properties.S3Bucket.Ref = <<DeploymentBucketKey>>
  THEN Put(resource, "Properties",
           Put(Put(resource.Properties, "S3Bucket", [Str |-> destBucket]),
               "S3Key", destCodeKey))
  ELSE resource

\* Lines 197-209: templateData.Resources.filter(...).forEach(...).  A plain
\* object has no filter method: calling it throws a TypeError.
rewriteResources(templateData, destBucket, destCodeKey) ==
  LET res == templateData.Resources
  IN  IF res.kind # "array"
      THEN [threw |-> TRUE, doc |-> templateData]
      ELSE [threw |-> FALSE,
            doc |-> Put(templateData, "Resources",
                        [res EXCEPT !.arr = [i \in 1..Len(res.arr) |->
                                               rewriteCode(res.arr[i], destBucket, destCodeKey)]])]

\* elaborateTemplate: the document as the call leaves it (it is changed in
\* place), the warnings logged, and whether the call threw instead of returning.
elaborateTemplate(templateData, rules, destBucket, destCodeKey) ==
  LET d1 == deleteDeploymentBucket(templateData)
      r2 == applyRules(d1, rules, 1, << >>)
      r3 == rewriteResources(r2.doc, destBucket, destCodeKey)
  IN  IF r2.threw
      THEN [threw |-> TRUE, doc |-> r2.doc, log |-> r2.log]
      ELSE [threw |-> r3.threw, doc |-> r3.doc, log |-> r2.log]

\* JSON.stringify of a resource's Properties: a property whose value is
\* undefined is left out of the text.
StringifyProperties(p) ==
  [k \in {x \in DOMAIN p :
            ~ \/ (x = "S3Key" /\ p[x] = Undef)
              \/ (x = "S3Bucket" /\ Has(p[x], "Str") /\ p[x].Str = Undef)} |-> p[k]]

StringifyResource(r) ==
  IF Has(r, "Properties") THEN Put(r, "Properties", StringifyProperties(r.Properties)) ELSE r

\* JSON.stringify(templateData), as the document the text denotes.
JSONStringify(templateData) ==
  LET res == templateData.Resources
  IN  Put(templateData, "Resources",
          [kind |-> res.kind,
           map |-> [n \in DOMAIN res.map |-> StringifyResource(res.map[n])],
           arr |-> [i \in 1..Len(res.arr) |-> StringifyResource(res.arr[i])]])

\* ------------------------------------------------------------------ state
VARIABLES
  options,          \* this.options: the command-line flags given
  custom,           \* serverless.service.custom.share
  s3Listing,        \* CommonPrefixes the deployment bucket lists under the path
  s3Template,       \* the compiled template stored in the deployment bucket
  s3Location,       \* LocationConstraint of the destination bucket
  pc,               \* the lifecycle hook (or step of it) to run next
  error,            \* the rejection that ended the run, Undef while there is none
  deploymentBucket, latestVersion, sourceKey, shareConfig,
  destBucket, destCodeKey, destTemplateKey, stackName,   \* fields of the plugin
  templateData,     \* the local variable of template()
  tmpFile,          \* whether /tmp/code.zip exists
  log,              \* serverless.cli.log: the messages printed, in order
  calls,            \* provider.request: the object-storage requests made, in order
  putBodies,        \* the Body of every putObject made
  stages            \* history: the pipeline stages run, each with its outcome

vars == <<options, custom, s3Listing, s3Template, s3Location, pc, error,
          deploymentBucket, latestVersion, sourceKey, shareConfig,
          destBucket, destCodeKey, destTemplateKey, stackName,
          templateData, tmpFile, log, calls, putBodies, stages>>

inputs == <<options, custom, s3Listing, s3Template, s3Location>>
fields == <<deploymentBucket, latestVersion, sourceKey, shareConfig,
            destBucket, destCodeKey, destTemplateKey, stackName>>

\* this.templateKey: the class never assigns it.
thisTemplateKey == Undef

\* provider.request('S3', op, { Bucket, Key, ... })
Request(op, bucket, key) == [op |-> op, Bucket |-> bucket, Key |-> key]

Stage(name, ok) == [stage |-> name, ok |-> ok]

\* A promise that is not awaited: the hook goes on whatever its outcome.
NotAwaited(ok, next) == next

\* An awaited promise: the hook goes on when it resolves, and rejects (which
\* ends the command) when it rejects.
Await(ok, next) == IF ok THEN next ELSE "aborted"

RequestFailed == <<"request failed">>
TypeError == <<"TypeError">>

\* Lines 84-91: the share configuration, defaults overridden by custom.share.
ShareDefaults(srcKey) ==
  [bucket |-> Undef, codeKey |-> srcKey, templateKey |-> <<"template.json">>,
   stackName |-> ServiceName, parameters |-> << >>]

\* Lines 92-95: the destination settings resolved from flags and configuration.
resolveBucket(opts, cfg) == Or(Get(opts, "bucket"), Get(cfg, "bucket"))
resolveCodeKey(opts, cfg) == Or(Get(opts, "key"), Get(cfg, "key"))
resolveTemplateKey(opts, cfg) == Or(Get(opts, "key"), Get(cfg, "key"))
resolveStackName(opts, cfg) == Or(Get(opts, "stackName"), Get(cfg, "stackName"))

\* Lines 134-137: the share link.
ShareLink(stack, region, bucket, templateKey) ==
  <<"https://console.aws.amazon.com/cloudformation/home#/stacks/new?">>
  \o <<"stackName=">> \o Interp(stack)
  \o <<"templateURL=https://">> \o Interp(region)
  \o <<".amazonaws.com/">> \o Interp(bucket) \o <<"/">> \o Interp(templateKey)

\* ---------------------------------------------------------------- actions
\* share:init (lines 73-96).
init ==
  /\ pc = "share:init"
  /\ \E nameOk, listOk \in BOOLEAN :
       LET r == getLatestVersion(s3Listing)
           good == nameOk /\ listOk /\ ~r.threw
           srcKey == PathJoin(r.value, ServiceName \o <<".zip">>)
           cfg == Spread(ShareDefaults(srcKey), custom)
       IN  /\ calls' = IF nameOk
                       THEN Append(calls, Request("listObjectsV2", DeploymentBucketName,
                                                  DeploymentBucketPath))
                       ELSE calls
           /\ deploymentBucket' = IF nameOk THEN DeploymentBucketName ELSE deploymentBucket
           /\ stages' = Append(stages, Stage("version discovery", good))
           /\ pc' = Await(good, "before:share:template")
           /\ IF good
              THEN /\ latestVersion' = r.value
                   /\ log' = Append(log, <<"Deploying version ">> \o r.value \o <<"..">>)
                   /\ sourceKey' = srcKey
                   /\ shareConfig' = cfg
                   /\ destBucket' = resolveBucket(options, cfg)
                   /\ destCodeKey' = resolveCodeKey(options, cfg)
                   /\ destTemplateKey' = resolveTemplateKey(options, cfg)
                   /\ stackName' = resolveStackName(options, cfg)
                   /\ error' = error
              ELSE /\ error' = IF nameOk /\ listOk THEN r.value ELSE RequestFailed
                   /\ UNCHANGED <<latestVersion, log, sourceKey, shareConfig, destBucket,
                                  destCodeKey, destTemplateKey, stackName>>
  /\ UNCHANGED <<inputs, templateData, tmpFile, putBodies>>

\* before:share:template (lines 101-103).
beforeTemplate ==
  /\ pc = "before:share:template"
  /\ log' = Append(log, <<"Deploying CloudFormation template..">>)
  /\ pc' = "template:get"
  /\ UNCHANGED <<inputs, fields, error, templateData, tmpFile, calls, putBodies, stages>>

\* share:template, line 105: getCurrentTemplate (lines 165-172).
getCurrentTemplate ==
  /\ pc = "template:get"
  /\ \E ok \in BOOLEAN :
       /\ calls' = Append(calls, Request("getObject", deploymentBucket,
                            PathJoin(latestVersion, <<"compiled-cloudformation-template.json">>)))
       /\ stages' = Append(stages, Stage("template fetch", ok))
       /\ templateData' = IF ok THEN s3Template ELSE templateData
       /\ error' = IF ok THEN error ELSE RequestFailed
       /\ pc' = Await(ok, "template:elaborate")
  /\ UNCHANGED <<inputs, fields, tmpFile, log, putBodies>>

\* share:template, line 106: elaborateTemplate (lines 180-212).
elaborate ==
  /\ pc = "template:elaborate"
  /\ LET r == elaborateTemplate(templateData, shareConfig.parameters, destBucket, destCodeKey)
     IN  /\ templateData' = r.doc
         /\ log' = log \o r.log
         /\ stages' = Append(stages, Stage("template elaboration", ~r.threw))
         /\ error' = IF r.threw THEN TypeError ELSE error
         /\ pc' = Await(~r.threw, "template:save")
  /\ UNCHANGED <<inputs, fields, tmpFile, calls, putBodies>>

\* share:template, line 107: saveTemplate (lines 219-227).
saveTemplate ==
  /\ pc = "template:save"
  /\ \E ok \in BOOLEAN :
       /\ calls' = Append(calls, Request("putObject", destBucket, destTemplateKey))
       /\ putBodies' = Append(putBodies, JSONStringify(templateData))
       /\ stages' = Append(stages, Stage("template upload", ok))
       /\ error' = IF ok THEN error ELSE RequestFailed
       /\ pc' = Await(ok, "after:share:template")
  /\ UNCHANGED <<inputs, fields, templateData, tmpFile, log>>

\* after:share:template (lines 109-111).
afterTemplate ==
  /\ pc = "after:share:template"
  /\ log' = Append(log, <<"CloudFormation template is ready to share!">>)
  /\ pc' = "before:share:code"
  /\ UNCHANGED <<inputs, fields, error, templateData, tmpFile, calls, putBodies, stages>>

\* before:share:code (lines 116-118).
beforeCode ==
  /\ pc = "before:share:code"
  /\ log' = Append(log, <<"Deploying code archive..">>)
  /\ pc' = "code:download"
  /\ UNCHANGED <<inputs, fields, error, templateData, tmpFile, calls, putBodies, stages>>

\* share:code, line 121: downloadCode (lines 234-241).
downloadCode ==
  /\ pc = "code:download"
  /\ \E ok \in BOOLEAN :
       /\ calls' = Append(calls, Request("getObject", deploymentBucket, sourceKey))
       /\ stages' = Append(stages, Stage("code download", ok))
       /\ tmpFile' = IF ok THEN TRUE ELSE tmpFile
       /\ error' = IF ok THEN error ELSE RequestFailed
       /\ pc' = Await(ok, "code:upload")
  /\ UNCHANGED <<inputs, fields, templateData, log, putBodies>>

\* share:code, lines 122-123: uploadCode (lines 248-256), then the unlink.
uploadCode ==
  /\ pc = "code:upload"
  /\ \E ok \in BOOLEAN :
       /\ calls' = Append(calls, Request("upload", destBucket, destCodeKey))
       /\ stages' = Append(stages, Stage("code upload", ok))
       /\ tmpFile' = IF ok THEN FALSE ELSE tmpFile
       /\ error' = IF ok THEN error ELSE RequestFailed
       /\ pc' = Await(ok, "after:share:code")
  /\ UNCHANGED <<inputs, fields, templateData, log, putBodies>>

\* after:share:code (lines 125-127).
afterCode ==
  /\ pc = "after:share:code"
  /\ log' = Append(log, <<"Code archive is ready to share!">>)
  /\ pc' = "share:end"
  /\ UNCHANGED <<inputs, fields, error, templateData, tmpFile, calls, putBodies, stages>>

\* share:end (lines 132-139), with getDestinationBucketRegion (lines 261-266).
end ==
  /\ pc = "share:end"
  /\ \E ok \in BOOLEAN :
       LET versionLine == <<"Version ">> \o Interp(latestVersion) \o <<" deployed!">>
           shareLink == ShareLink(stackName, s3Location, destBucket, thisTemplateKey)
       IN  /\ calls' = Append(calls, Request("getBucketLocation", destBucket, EmptyStr))
           /\ stages' = Append(stages, Stage("link construction", ok))
           /\ log' = IF ok
                     THEN log \o <<versionLine, <<"Share link: ">> \o shareLink>>
                     ELSE Append(log, versionLine)
           /\ error' = IF ok THEN error ELSE RequestFailed
           /\ pc' = Await(ok, "done")
  /\ UNCHANGED <<inputs, fields, templateData, tmpFile, putBodies>>

Next ==
  \/ init
  \/ beforeTemplate
  \/ getCurrentTemplate
  \/ elaborate
  \/ saveTemplate
  \/ afterTemplate
  \/ beforeCode
  \/ downloadCode
  \/ uploadCode
  \/ afterCode
  \/ end

\* ------------------------------------------------------------------ inputs
\* Objects with any of the given keys set, the value of key k being <<tag, k>>.
ObjectsOver(keys, tag) == {[k \in S |-> <<tag, k>>] : S \in SUBSET keys}

\* The four flags the command declares (lines 22-51) and two it reads but
\* does not declare (lines 93-95), which the command line may still carry.
DeclaredFlags == {"bucket", "codeKey", "templateKey", "stack"}
ReadFlags == {"key", "stackName"}
\* The options custom.share documents (README, Configuration).
ConfigKeys == {"bucket", "stack", "codeKey", "templateKey"}

\* Version folders: the deployment path, one to MaxDigits characters, "/".
RECURSIVE DigitStrings(_)
DigitStrings(n) ==
  IF n = 0 THEN {<< >>}
  ELSE {<< >>} \cup {<<c>> \o d : c \in {"0", "1"}, d \in DigitStrings(n - 1)}

VersionPrefixes ==
  {DeploymentBucketPath \o d \o <<"/">> : d \in DigitStrings(MaxDigits) \ {<< >>}}

RECURSIVE SeqsUpTo(_, _)
SeqsUpTo(S, n) ==
  IF n = 0 THEN {<< >>}
  ELSE {<< >>} \cup {<<x>> \o t : x \in S, t \in SeqsUpTo(S, n - 1)}

Listings == SeqsUpTo({[Prefix |-> v] : v \in VersionPrefixes}, MaxListLen)

\* Parameters of a template and the rules of custom.share.parameters.
ParamNames == {"P1", "P2"}
ParamObjects == {[Type |-> <<"String">>], [Type |-> <<"String">>, Default |-> <<"x">>]}
ParameterMaps == UNION {[S -> ParamObjects] : S \in SUBSET ParamNames}
RuleKinds == {"required", "optional"}
RuleSeqs ==
  {r \in SeqsUpTo([key : ParamNames, rule : RuleKinds], Cardinality(ParamNames)) :
     \A i, j \in 1..Len(r) : i # j => r[i].key # r[j].key}

\* Resources.
RefDeploymentBucket == [Ref |-> <<DeploymentBucketKey>>]
BucketResource == [Type |-> <<"AWS::S3::Bucket">>]
\* a function as serverless compiles it: its Code block refers to the bucket
FnCompiled ==
  [Type |-> LambdaType,
   Properties |-> [Code |-> [S3Bucket |-> RefDeploymentBucket, S3Key |-> <<"src.zip">>]]]
\* a function whose code lives in another bucket
FnElsewhere ==
  [Type |-> LambdaType,
   Properties |-> [Code |-> [S3Bucket |-> [Str |-> <<"elsewhere">>], S3Key |-> <<"src.zip">>]]]
\* a function with the bucket reference beside its Code block
FnBeside ==
  [Type |-> LambdaType,
   Properties |-> [Code |-> [ZipFile |-> <<"inline">>], S3Bucket |-> RefDeploymentBucket]]
FnBare == [Type |-> LambdaType]
\* not a function, though shaped like FnBeside
RoleResource ==
  [Type |-> <<"AWS::IAM::Role">>,
   Properties |-> [Code |-> [ZipFile |-> <<"inline">>], S3Bucket |-> RefDeploymentBucket]]

FnResources == {FnCompiled, FnElsewhere, FnBeside, FnBare}
AllResources == FnResources \cup {BucketResource, RoleResource}

ResourceMaps ==
  {[n \in S |-> IF n = DeploymentBucketKey THEN BucketResource
                ELSE IF n = "Role" THEN RoleResource ELSE f] :
     S \in SUBSET {DeploymentBucketKey, "Fn", "Role"}, f \in FnResources}

ResourcesValues ==
  {[kind |-> "object", map |-> m, arr |-> << >>] : m \in ResourceMaps}
  \cup {[kind |-> "array", map |-> EmptyObj, arr |-> a] : a \in SeqsUpTo(AllResources, MaxArrayLen)}

Templates ==
  {[Resources |-> r] : r \in ResourcesValues}
  \cup {[Resources |-> r, Parameters |-> p] : r \in ResourcesValues, p \in ParameterMaps}

\* Two templates for the runs that are not about elaboration: the compiled
\* shape (Resources an object) and one whose Resources is an array.
TemplateObject ==
  [Resources |-> [kind |-> "object",
                  map |-> [n \in {DeploymentBucketKey, "Fn"} |->
                             IF n = "Fn" THEN FnCompiled ELSE BucketResource],
                  arr |-> << >>],
   Parameters |-> [n \in {"P1"} |-> [Type |-> <<"String">>, Default |-> <<"x">>]]]
TemplateArray ==
  [Resources |-> [kind |-> "array", map |-> EmptyObj, arr |-> <<FnBeside>>],
   Parameters |-> [n \in {"P1"} |-> [Type |-> <<"String">>, Default |-> <<"x">>]]]

Locations == {<<"eu-west-1">>, <<"us-west-2">>}

\* The state after construction (lines 7-68), for given inputs.
Start(opts, cfgs, listings, templates, locations) ==
  /\ options \in opts
  /\ custom \in cfgs
  /\ s3Listing \in listings
  /\ s3Template \in templates
  /\ s3Location \in locations
  /\ pc = "share:init"
  /\ error = Undef
  /\ deploymentBucket = Undef /\ latestVersion = Undef /\ sourceKey = Undef
  /\ shareConfig = Undef
  /\ destBucket = Undef /\ destCodeKey = Undef /\ destTemplateKey = Undef
  /\ stackName = Undef
  /\ templateData = Undef
  /\ tmpFile = FALSE
  /\ log = << >> /\ calls = << >> /\ putBodies = << >> /\ stages = << >>

WithRules(cfg, rules) == IF rules = << >> THEN cfg ELSE Put(cfg, "parameters", rules)

\* The pipeline: every listing; few configurations and templates.
Init ==
  Start(ObjectsOver({"key"}, "cli-"),
        {[bucket |-> <<"cfg-", "bucket">>]},
        Listings, {TemplateObject, TemplateArray}, {<<"eu-west-1">>})

Spec == Init /\ [][Next]_vars

\* Elaboration: every template and every rule mapping; one listing.
InitElab ==
  Start(ObjectsOver({"key"}, "cli-"),
        {WithRules([bucket |-> <<"cfg-", "bucket">>], r) : r \in RuleSeqs},
        {<<[Prefix |-> DeploymentBucketPath \o <<"1", "/">>]>>},
        Templates, {<<"eu-west-1">>})

SpecElab == InitElab /\ [][Next]_vars

\* Configuration: every combination of flags and options; one listing.
InitCfg ==
  Start(ObjectsOver(DeclaredFlags \cup ReadFlags, "cli-"),
        ObjectsOver(ConfigKeys, "cfg-"),
        {<<[Prefix |-> DeploymentBucketPath \o <<"1", "/">>]>>},
        {TemplateObject, TemplateArray}, Locations)

SpecCfg == InitCfg /\ [][Next]_vars

\* ------------------------------------------------------------- properties
StageOrder ==
  <<"version discovery", "template fetch", "template elaboration", "template upload",
    "code download", "code upload", "link construction">>

\* Stage number n has run (to its end, or to the error that ended it).
StageOver(n) == Len(stages) >= n
\* Stage number n has run and completed without an error.
StageDone(n) == Len(stages) >= n /\ stages[n].ok

InitDone == StageDone(1)
ElaborationOver == StageOver(3)

Logged(message) == \E i \in 1..Len(log) : log[i] = message
LinkPrinted == \E i \in 1..Len(log) : log[i][1] = "Share link: "

\* The template as fetched and as elaborateTemplate left it.
Before == s3Template
After == templateData

\* The code-location block of a resource refers to the deployment bucket.
CodeInDeploymentBucket(resource) ==
  /\ Has(resource, "Type") /\ resource.Type = LambdaType
  /\ Has(resource, "Properties") /\ Has(resource.Properties, "Code")
  /\ Has(resource.Properties.Code, "S3Bucket")
  /\ resource.Properties.Code.S3Bucket = RefDeploymentBucket

\* The code-location block of a resource names the destination bucket and key.
CodeAtDestination(resource) ==
  /\ Has(resource, "Properties") /\ Has(resource.Properties, "Code")
  /\ Has(resource.Properties.Code, "S3Bucket")
  /\ Has(resource.Properties.Code, "S3Key")
  /\ resource.Properties.Code.S3Bucket = [Str |-> destBucket]
  /\ resource.Properties.Code.S3Key = destCodeKey

\* C1: once elaborateTemplate is over on a template whose Resources is a
\* mapping, every rule has had its effect: an
\* existing parameter under 'required' has no Default, an existing parameter
\* under 'optional' has Default '', and for a rule whose parameter is absent
\* the warning is logged and no entry of that name exists.
C1_RulesApplied ==
  (ElaborationOver /\ Before.Resources.kind = "object") =>
    \A i \in 1..Len(shareConfig.parameters) :
      LET key == shareConfig.parameters[i].key
          rule == shareConfig.parameters[i].rule
      IN  IF Has(Before, "Parameters") /\ Has(Before.Parameters, key)
          THEN /\ Has(After, "Parameters") /\ Has(After.Parameters, key)
               /\ rule = "required" => ~Has(After.Parameters[key], "Default")
               /\ rule = "optional" =>
                    /\ Has(After.Parameters[key], "Default")
                    /\ After.Parameters[key].Default = EmptyStr
          ELSE /\ Logged(RuleWarning(key))
               /\ ~(Has(After, "Parameters") /\ Has(After.Parameters, key))

\* C2: once elaborateTemplate is over on a template whose Resources is a
\* mapping, every Lambda function whose code-location
\* block refers to the deployment bucket has that block's bucket and key set to
\* the destination bucket and the destination code key.
C2_CodeRewritten ==
  (ElaborationOver /\ Before.Resources.kind = "object") =>
    \A n \in DOMAIN Before.Resources.map :
      (n # DeploymentBucketKey /\ CodeInDeploymentBucket(Before.Resources.map[n]))
        => CodeAtDestination(After.Resources.map[n])

\* C3: for a template whose Resources holds the deployment-bucket entry, the
\* keys of Resources once elaborateTemplate is over are the keys before minus
\* that one key: no other entry is removed and none is added.
C3_OnlyDeploymentBucketRemoved ==
  (ElaborationOver /\ Has(Before.Resources.map, DeploymentBucketKey)) =>
    DOMAIN After.Resources.map = DOMAIN Before.Resources.map \ {DeploymentBucketKey}

\* C3 witness: elaboration has run on a template holding the deployment
\* bucket and two other resources.
C3_Witness ==
  /\ ElaborationOver
  /\ DOMAIN Before.Resources.map = {DeploymentBucketKey, "Fn", "Role"}
  /\ DOMAIN After.Resources.map = {"Fn", "Role"}

\* C4: elaborateTemplate never fails: whenever it has run on a template whose
\* Resources is a mapping, it has completed without raising an error.
C4_NeverFails ==
  (ElaborationOver /\ Before.Resources.kind = "object") => StageDone(3)

\* The number of object-storage requests the first n stages make when each
\* makes its request: every stage but the elaboration makes one.
RequestsOf(n) == IF n >= 3 THEN n - 1 ELSE n

\* C5: the stages run in the fixed order, each after the previous one has
\* completed; a stage that fails is the last one of the run: no later stage
\* runs, no later request is made, and the link is printed only after all seven.
C5_Sequential ==
  /\ Len(stages) <= Len(StageOrder)
  /\ \A i \in 1..Len(stages) : stages[i].stage = StageOrder[i]
  /\ \A i \in 1..Len(stages) : i < Len(stages) => stages[i].ok
  /\ Len(calls) <= RequestsOf(Len(stages))
  /\ LinkPrinted => StageDone(Len(StageOrder))
  /\ (Len(stages) > 0 /\ ~stages[Len(stages)].ok) => pc = "aborted"
  /\ pc = "aborted" => (~stages[Len(stages)].ok /\ error # Undef /\ ~LinkPrinted)

\* C5 witness: the code upload fails after five stages have completed in order.
C5_Witness ==
  /\ pc = "aborted" /\ Len(stages) = 6 /\ ~stages[6].ok
  /\ \A i \in 1..5 : stages[i].ok
  /\ Len(calls) = 5

\* C6: once the code stage has ended, by success or by failure, after
\* downloadCode wrote the temporary file, the file is gone.
C6_TmpFileRemoved ==
  (StageDone(5) /\ StageOver(6)) => ~tmpFile

\* The value a destination setting is documented to resolve to.
Resolved(flag, option, default) ==
  IF Has(options, flag) THEN options[flag]
  ELSE IF Has(custom, option) THEN custom[option]
  ELSE default

\* C7: after init each destination setting is its flag's value when the flag
\* is given, else the custom.share option's value when configured, else its
\* default.
C7_SettingsResolved ==
  InitDone =>
    /\ destBucket = Resolved("bucket", "bucket", Undef)
    /\ destCodeKey = Resolved("codeKey", "codeKey", sourceKey)
    /\ destTemplateKey = Resolved("templateKey", "templateKey", <<"template.json">>)
    /\ stackName = Resolved("stack", "stack", ServiceName)

\* The link as documented: the two query parameters separated by '&'.
DocumentedLink(stack, region, bucket, templateKey) ==
  <<"https://console.aws.amazon.com/cloudformation/home#/stacks/new?">>
  \o <<"stackName=">> \o stack
  \o <<"&templateURL=https://">> \o region
  \o <<".amazonaws.com/">> \o bucket \o <<"/">> \o templateKey

\* C8: the link the end stage prints is the documented one, built from the
\* resolved stack name, the destination bucket's location, the destination
\* bucket and the key under which the template was uploaded.
C8_LinkForm ==
  LinkPrinted =>
    log[Len(log)] = <<"Share link: ">>
                    \o DocumentedLink(stackName, s3Location, destBucket, calls[3].Key)

VersionNotFound == <<"Version not found">>

\* C9: when the listing holds no version folder, init fails and the run is
\* aborted: the only request ever made is the listing, nothing is put, no link
\* is printed, and the error of a listing that answered is 'Version not found'.
C9_NoVersionAborts ==
  s3Listing = << >> =>
    /\ \A i \in 1..Len(calls) : calls[i].op = "listObjectsV2"
    /\ putBodies = << >>
    /\ ~LinkPrinted
    /\ ~StageOver(2)
    /\ StageOver(1) =>
         /\ pc = "aborted"
         /\ ~stages[1].ok
         /\ error \in {VersionNotFound, RequestFailed}

\* C9 witness: init has failed with 'Version not found' on an empty listing.
C9_Witness ==
  /\ s3Listing = << >>
  /\ pc = "aborted"
  /\ error = VersionNotFound
  /\ Len(calls) = 1

\* C10: after init on a non-empty listing, the latest version is the prefix
\* greatest in lexicographic order, in whatever order the listing holds them.
C10_GreatestPrefix ==
  InitDone =>
    /\ \E i \in 1..Len(s3Listing) : s3Listing[i].Prefix = latestVersion
    /\ \A i \in 1..Len(s3Listing) : ~StrLess(latestVersion, s3Listing[i].Prefix)

====
